---- MODULE Spec2Model ----
(***************************************************************************)
(* Model of fieldservice_sale/models/sale_order.py: the sale.order         *)
(* extension that generates and links field service (fsm) orders.          *)
(*                                                                         *)
(* Records are identified by positive integers, 0 (Unset) is Odoo's False. *)
(* A recordset is a duplicate-free sequence of ids.  The fsm.order table   *)
(* is the sequence fsm_orders (the id of a record is its index), and a     *)
(* search returns its matches in ascending id order.  Durations are        *)
(* counted in half hours so that 1.5 h and 2.0 h are the integers 3 and 4. *)
(***************************************************************************)
EXTENDS Integers, Sequences, FiniteSets, TLC

(* --------------------------- bounds ------------------------------------ *)
MaxLines == 2        \* sale order lines in the generation specifications
MaxValueLines == 3   \* sale order lines in the value-building specification
MaxFsm == 3          \* fsm orders the direct-creation specifications let exist
MaxLocations == 2    \* fsm locations in the location-inference specification

Unset == 0
\* the sale.order table: two sale orders, so that a recordset of several
\* orders and an fsm order of another sale order both exist
SaleIds == {1, 2}

VARIABLES
    lines,              \* sale.order.line table: [order_id, product_id]
    partners,           \* res.partner table
    locations,          \* fsm.location table
    state,              \* sale.order.state
    partner_id,         \* sale.order.partner_id
    partner_shipping_id,\* sale.order.partner_shipping_id
    fsm_location_id,    \* sale.order.fsm_location_id
    fsm_orders,         \* fsm.order table
    messages,           \* mail.message rows posted by message_post
    calls,              \* the _field_find_fsm_order calls of the request flows
    ret                 \* outcome of the last call

vars == <<lines, partners, locations, state, partner_id, partner_shipping_id,
          fsm_location_id, fsm_orders, messages, calls, ret>>

(* --------------------------- catalogue --------------------------------- *)
\* instructions of a template that has none (Odoo stores False)
NoInstructions == <<"False">>

\* fsm.template rows: instructions (a character sequence), duration, categories
template ==
    << [instructions |-> <<"A">>,         duration |-> 3, category_ids |-> <<1>>],
       [instructions |-> <<"B">>,         duration |-> 4, category_ids |-> <<2, 1>>],
       [instructions |-> NoInstructions, duration |-> 1, category_ids |-> << >>],
       [instructions |-> <<"C", "D">>,    duration |-> 2, category_ids |-> <<3>>] >>

\* product.product rows: field_service_tracking and fsm_order_template_id
product ==
    << [field_service_tracking |-> "no",   fsm_order_template_id |-> Unset],
       [field_service_tracking |-> "sale", fsm_order_template_id |-> 1],
       [field_service_tracking |-> "line", fsm_order_template_id |-> 2],
       [field_service_tracking |-> "sale", fsm_order_template_id |-> 2],
       [field_service_tracking |-> "sale", fsm_order_template_id |-> 3],
       [field_service_tracking |-> "sale", fsm_order_template_id |-> 1],
       [field_service_tracking |-> "sale", fsm_order_template_id |-> Unset],
       [field_service_tracking |-> "no",   fsm_order_template_id |-> 4] >>

ProductIds == 1..Len(product)
\* the products the generation specifications sell: one per tracking mode
BasicProducts == {1, 2, 3}

\* sale.order fields the value record copies
expected_date(so) == 10 * so
company_id(so) == 1

(* --------------------------- recordsets -------------------------------- *)
Range(s) == {s[i] : i \in 1..Len(s)}

Ids(n) == [i \in 1..n |-> i]

\* the positions of a list of ids where an id shows for the first time
FirstOccurrences(s) ==
    SelectSeq(Ids(Len(s)), LAMBDA i : \A j \in 1..(i - 1) : s[j] # s[i])

\* the elements of s at the positions idx
Pick(s, idx) == [k \in 1..Len(idx) |-> s[idx[k]]]

\* the list taken as it is, repetitions included
BrowseKeepingAll(s) == s

\* a recordset built from a list of ids: the first occurrence of each stays
Browse(s) == Pick(s, FirstOccurrences(s))

\* the union that keeps a record once per operand
UnionKeepingAll(a, b) == a \o b

\* recordset union (the | operator): keeps order, drops duplicates
Union(a, b) == Browse(a \o b)

\* all duplicate-free sequences over a set: the recordsets a call can get
Recordsets(S) ==
    {s \in UNION {[1..k -> S] : k \in 0..Cardinality(S)} :
        \A i, j \in 1..Len(s) : s[i] = s[j] => i = j}

\* order.order_line: the lines of the order, by id
order_line(so) == SelectSeq(Ids(Len(lines)), LAMBDA l : lines[l].order_id = so)

tracking(sol) == product[lines[sol].product_id].field_service_tracking

(* --------------------------- fsm.order store --------------------------- *)
\* the store a call works on: the fsm.order table and the posted messages
Db == [fsm |-> fsm_orders, msgs |-> messages]

\* env[model].search(domain): the matching ids, ascending
Search(table, Domain(_)) == SelectSeq(Ids(Len(table)), LAMBDA i : Domain(table[i]))

\* the creation that writes over the newest record
CreateOverLast(table, values) ==
    IF table = << >> THEN <<values>> ELSE [table EXCEPT ![Len(table)] = values]

\* env["fsm.order"].create(values): the new record gets the next id
Create(table, values) == Append(table, values)

\* record.message_post(body): a note on `model`/`res_id` that links to ref
MessagePost(msgs, model, res_id, ref_model, ref_id) ==
    Append(msgs, [model |-> model, res_id |-> res_id,
                  ref_model |-> ref_model, ref_id |-> ref_id])

\* result[key] = value on a dict
Put(dict, key, value) ==
    [k \in DOMAIN dict \cup {key} |-> IF k = key THEN value ELSE dict[k]]

(* ----------------- _field_create_fsm_order_prepare_values -------------- *)
\* the filter that keeps every line but the "no" ones
SaleLinesNotNo(so) == SelectSeq(order_line(so), LAMBDA sol : tracking(sol) # "no")

\* lines.filtered(lambda sol: sol.product_id.field_service_tracking == "sale")
SaleLines(so) == SelectSeq(order_line(so), LAMBDA sol : tracking(sol) = "sale")

\* lines.mapped("product_id"): a recordset, so a product appears once
MappedProducts(sols) == Browse([i \in 1..Len(sols) |-> lines[sols[i]].product_id])

\* products.mapped("fsm_order_template_id"): unset templates add nothing
MappedTemplates(prods) ==
    Browse(SelectSeq([i \in 1..Len(prods) |-> product[prods[i]].fsm_order_template_id],
                     LAMBDA t : t # Unset))

\* lines.mapped("product_id.fsm_order_template_id")
Templates(so) == MappedTemplates(MappedProducts(SaleLines(so)))

\* template.instructions or ""
InstructionsOrEmpty(t) ==
    IF template[t].instructions = NoInstructions THEN << >>
    ELSE template[t].instructions

\* one round of the loop over the templates
AggregateStep(acc, t) ==
    [note |-> acc.note \o InstructionsOrEmpty(t),
     hours |-> acc.hours + template[t].duration,
     categories |-> Union(acc.categories, template[t].category_ids)]

\* the loop over the templates: note, hours and categories after each round
Aggregate(ts) ==
    LET acc[i \in 0..Len(ts)] ==
            IF i = 0 THEN [note |-> << >>, hours |-> 0, categories |-> << >>]
            ELSE AggregateStep(acc[i - 1], ts[i])
    IN  acc[Len(ts)]

\* self.fsm_location_id.direction (False on an empty record)
Direction(loc) == IF loc = Unset THEN "False" ELSE locations[loc].direction

\* the returned dict, given what the loop aggregated
ValuesOf(so, agg) ==
    [location_id |-> fsm_location_id[so],
     location_directions |-> Direction(fsm_location_id[so]),
     request_early |-> expected_date(so),
     scheduled_date_start |-> expected_date(so),
     todo |-> agg.note,
     category_ids |-> agg.categories,
     scheduled_duration |-> agg.hours,
     sale_id |-> so,
     sale_line_id |-> Unset,
     company_id |-> company_id(so)]

field_create_fsm_order_prepare_values(so) == ValuesOf(so, Aggregate(Templates(so)))

(* ----------------------- _field_create_fsm_order ----------------------- *)
\* the creation followed by the post on the sale order alone
PostedOnSaleOrder(db, so, table) ==
    [fsm |-> table,
     msgs |-> MessagePost(db.msgs, "sale.order", so, "fsm.order", Len(table))]

\* the two message posts that follow the creation of the last record of
\* `table`: one on the sale order, one on the new fsm order
Posted(db, so, table) ==
    [fsm |-> table,
     msgs |-> MessagePost(
                  MessagePost(db.msgs, "sale.order", so, "fsm.order", Len(table)),
                  "fsm.order", Len(table), "sale.order", so)]

\* the round that creates nothing for a sale order that has an order-level
\* fsm order
CreateOneIfMissing(db, so) ==
    IF \E i \in 1..Len(db.fsm) :
          db.fsm[i].sale_id = so /\ db.fsm[i].sale_line_id = Unset
    THEN db
    ELSE Posted(db, so, Create(db.fsm, field_create_fsm_order_prepare_values(so)))

\* one round of the loop: create, post on the sale order, post on the fsm order
CreateOne(db, so) ==
    Posted(db, so, Create(db.fsm, field_create_fsm_order_prepare_values(so)))

\* result[so.id] = fsm_order
Created(prev, so, one) ==
    [db |-> one, result |-> Put(prev.result, so, Len(one.fsm))]

\* the call: [db, result] after each round, result the mapping so.id -> fsm_order
field_create_fsm_order(db, sos) ==
    LET acc[i \in 0..Len(sos)] ==
            IF i = 0 THEN [db |-> db, result |-> << >>]
            ELSE Created(acc[i - 1], sos[i], CreateOne(acc[i - 1].db, sos[i]))
    IN  acc[Len(sos)]

(* ------------------------ _field_find_fsm_order ------------------------ *)
\* the search with the line test turned round
FindDomainLineScoped(sos, rec) ==
    rec.sale_id \in Range(sos) /\ rec.sale_line_id # Unset

\* the search without the line test
FindDomainAnyScope(sos, rec) == rec.sale_id \in Range(sos)

\* search([("sale_id", "in", self.ids), ("sale_line_id", "=", False)])
FindDomain(sos, rec) == rec.sale_id \in Range(sos) /\ rec.sale_line_id = Unset

\* the mapping that leaves out a sale order found more than once
MappingOfSingles(table, found) ==
    [o \in {table[i].sale_id : i \in
              {k \in Range(found) :
                  \A j \in Range(found) : table[j].sale_id = table[k].sale_id => j = k}} |->
        CHOOSE i \in Range(found) : table[i].sale_id = o]

\* {fsm_order.sale_id.id: fsm_order for fsm_order in fsm_orders}: a later
\* record of the same sale order replaces an earlier one
MappingOf(table, found) ==
    [o \in {table[i].sale_id : i \in Range(found)} |->
        CHOOSE i \in Range(found) :
            /\ table[i].sale_id = o
            /\ \A j \in Range(found) : table[j].sale_id = o => j <= i]

\* the mapping keyed by the fsm order's own id
FsmOrderMappingById(table, sos) ==
    [i \in Range(Search(table, LAMBDA rec : FindDomain(sos, rec))) |-> i]

\* the search and the mapping of its result
FsmOrderMapping(table, sos) ==
    MappingOf(table, Search(table, LAMBDA rec : FindDomain(sos, rec)))

\* fsm_order = so._field_create_fsm_order()[so.id]
Made(so, made) == [db |-> made.db, fsm_order |-> made.result[so]]

\* one round of the loop: reuse the mapped fsm order of the sale order, or
\* create one; [db, fsm_order]
FindOne(db, mapping, so) ==
    IF so \in DOMAIN mapping THEN [db |-> db, fsm_order |-> mapping[so]]
    ELSE Made(so, field_create_fsm_order(db, <<so>>))

\* result[so.id] = fsm_order
Found(prev, so, one) ==
    [db |-> one.db, result |-> Put(prev.result, so, one.fsm_order)]

\* the loop: [db, result] after each round
FindLoop(db, mapping, sos) ==
    LET acc[i \in 0..Len(sos)] ==
            IF i = 0 THEN [db |-> db, result |-> << >>]
            ELSE Found(acc[i - 1], sos[i], FindOne(acc[i - 1].db, mapping, sos[i]))
    IN  acc[Len(sos)]

field_find_fsm_order(db, sos) == FindLoop(db, FsmOrderMapping(db.fsm, sos), sos)

(* -------------- sale.order.line _field_service_generation -------------- *)
\* values of a line-scoped fsm order: the line's own template, the order's
\* location, and the line as sale_line_id
LineValuesOf(values, sol, t) ==
    [values EXCEPT
        !.todo = IF t = Unset THEN << >> ELSE InstructionsOrEmpty(t),
        !.category_ids = IF t = Unset THEN << >> ELSE template[t].category_ids,
        !.scheduled_duration = IF t = Unset THEN 0 ELSE template[t].duration,
        !.sale_line_id = sol]

LineValues(sol) ==
    LineValuesOf(field_create_fsm_order_prepare_values(lines[sol].order_id),
                 sol, product[lines[sol].product_id].fsm_order_template_id)

\* find-or-create of the fsm order of one line
LineFindOrCreate(db, sol) ==
    IF Search(db.fsm, LAMBDA rec : rec.sale_line_id = sol) # << >> THEN db
    ELSE Posted(db, lines[sol].order_id, Create(db.fsm, LineValues(sol)))

\* one line: a "sale" line resolves the fsm order of its sale order through
\* _field_find_fsm_order, a "line" line gets an fsm order of its own
GenerateLine(db, sol) ==
    CASE tracking(sol) = "sale" ->
            field_find_fsm_order(db, <<lines[sol].order_id>>).db
      [] tracking(sol) = "line" -> LineFindOrCreate(db, sol)
      [] OTHER -> db

\* the collaborator, line by line
field_service_generation(db, sols) ==
    LET acc[i \in 0..Len(sols)] ==
            IF i = 0 THEN db ELSE GenerateLine(acc[i - 1], sols[i])
    IN  acc[Len(sols)]

(* --------------------------- outcome record ---------------------------- *)
\* no action returned
NoAction ==
    [type |-> "none", view |-> "none", res_id |-> Unset,
     filtered |-> FALSE, domain_ids |-> << >>]

NoCall ==
    [op |-> "none", ids |-> << >>, repeat |-> FALSE, created |-> 0,
     action |-> NoAction,
     raised |-> "none", returned |-> "none", base_called |-> FALSE,
     gen_called |-> FALSE, gen_lines |-> << >>,
     result |-> << >>, values |-> << >>,
     fsm_order_ids |-> << >>, fsm_order_count |-> << >>]

\* the outcome of calling `op` on the recordset `ids`, leaving the fsm.order
\* table `table`; repeat: the call before was the same one
Call(op, ids, table) ==
    [NoCall EXCEPT !.op = op, !.ids = ids,
                   !.repeat = (ret.op = op /\ ret.ids = ids),
                   !.created = Len(table) - Len(fsm_orders)]

\* the outcome of a call that returns nothing this model looks at
Quiet(op) == [NoCall EXCEPT !.op = op]

(* ---------------- _field_find_fsm_order, step by step ------------------ *)
\* two request flows, each running one _field_find_fsm_order call at a time
Flows == {1, 2}

\* a flow outside a call
NoFlow == [pc |-> "idle", sos |-> << >>, mapping |-> << >>,
           todo |-> << >>, result |-> << >>]

\* the search and the mapping built from it: the flow now holds what it read
FlowSearch(p, sos) ==
    /\ calls[p].pc \in {"idle", "done"}
    /\ calls' = [calls EXCEPT ![p] =
          [pc |-> "loop", sos |-> sos,
           mapping |-> FsmOrderMapping(fsm_orders, sos),
           todo |-> sos, result |-> << >>]]
    /\ UNCHANGED <<lines, partners, locations, state, partner_id,
                   partner_shipping_id, fsm_location_id, fsm_orders, messages, ret>>

\* the effect of one round of flow p that resolved `so` as `one`
FlowRoundEffect(p, so, one) ==
    /\ fsm_orders' = one.db.fsm
    /\ messages' = one.db.msgs
    /\ calls' = [calls EXCEPT ![p].todo = Tail(calls[p].todo),
                              ![p].result = Put(calls[p].result, so, one.fsm_order)]
    /\ UNCHANGED <<lines, partners, locations, state, partner_id,
                   partner_shipping_id, fsm_location_id, ret>>

\* one round of the loop of flow p, looking the sale order up in `mapping`
FlowRound(p, mapping) ==
    /\ calls[p].pc = "loop"
    /\ calls[p].todo # << >>
    /\ FlowRoundEffect(p, Head(calls[p].todo),
                       FindOne(Db, mapping, Head(calls[p].todo)))

\* the round that reads the table again instead of the mapping it holds
FlowIterateRereading(p) == FlowRound(p, FsmOrderMapping(fsm_orders, calls[p].sos))

\* fsm_order_mapping.get(so.id), and the creation when it gives nothing
FlowIterate(p) == FlowRound(p, calls[p].mapping)

\* return result
FlowReturn(p) ==
    /\ calls[p].pc = "loop"
    /\ calls[p].todo = << >>
    /\ calls' = [calls EXCEPT ![p].pc = "done"]
    /\ UNCHANGED <<lines, partners, locations, state, partner_id,
                   partner_shipping_id, fsm_location_id, fsm_orders, messages, ret>>

(* ----------------------------- actions --------------------------------- *)
\* the test looking for "sale" lines only
AnyServiceLineSaleOnly(so) ==
    \E sol \in Range(order_line(so)) : tracking(sol) = "sale"

\* the test satisfied by any line at all
AnyServiceLineAnyLine(so) == order_line(so) # << >>

\* any(sol.product_id.field_service_tracking != "no" for sol in self.order_line)
AnyServiceLine(so) == \E sol \in Range(order_line(so)) : tracking(sol) # "no"

\* the test that never finds the location missing
LocationMissingNever(so) == FALSE

\* not self.fsm_location_id
LocationMissing(so) == fsm_location_id[so] = Unset

\* super()._action_confirm(): the sale order becomes a confirmed sale
BaseActionConfirm(st, so) == [st EXCEPT ![so] = "sale"]

\* what super()._action_confirm() returns
BaseActionConfirmResult == "True"

\* the confirmation that makes its checks before the base confirmation
ConfirmEffectCheckFirst(so, raised, generated, sols, db) ==
    /\ state' = IF raised THEN state ELSE BaseActionConfirm(state, so)
    /\ fsm_orders' = db.fsm
    /\ messages' = db.msgs
    /\ ret' = [Call("confirm", <<so>>, db.fsm) EXCEPT
                 !.base_called = ~raised,
                 !.raised = IF raised THEN "ValidationError" ELSE "none",
                 !.returned = IF raised THEN "none" ELSE BaseActionConfirmResult,
                 !.gen_called = generated,
                 !.gen_lines = sols]
    /\ UNCHANGED <<calls, lines, partners, locations, partner_id,
                   partner_shipping_id, fsm_location_id>>

\* what a confirmation leaves: the base confirmation ran; then the error was
\* raised, or the lines `sols` went to the line generation, which left `db`
ConfirmEffect(so, raised, generated, sols, db) ==
    /\ state' = BaseActionConfirm(state, so)
    /\ fsm_orders' = db.fsm
    /\ messages' = db.msgs
    /\ ret' = [Call("confirm", <<so>>, db.fsm) EXCEPT
                 !.base_called = TRUE,
                 !.raised = IF raised THEN "ValidationError" ELSE "none",
                 !.returned = IF raised THEN "none" ELSE BaseActionConfirmResult,
                 !.gen_called = generated,
                 !.gen_lines = sols]
    /\ UNCHANGED <<calls, lines, partners, locations, partner_id,
                   partner_shipping_id, fsm_location_id>>

\* the confirmation that hands over the lines that are not "no" lines
ActionConfirmQualifying(so) ==
    IF AnyServiceLine(so)
    THEN IF LocationMissing(so)
         THEN ConfirmEffect(so, TRUE, FALSE, << >>, Db)
         ELSE ConfirmEffect(so, FALSE, TRUE, SaleLinesNotNo(so),
                            field_service_generation(Db, SaleLinesNotNo(so)))
    ELSE ConfirmEffect(so, FALSE, FALSE, << >>, Db)

\* _action_confirm on one sale order
ActionConfirm(so) ==
    IF AnyServiceLine(so)
    THEN IF LocationMissing(so)
         THEN ConfirmEffect(so, TRUE, FALSE, << >>, Db)
         ELSE ConfirmEffect(so, FALSE, TRUE, order_line(so),
                            field_service_generation(Db, order_line(so)))
    ELSE ConfirmEffect(so, FALSE, FALSE, << >>, Db)

\* the base action_cancel: the sale order becomes cancelled
ActionCancel(so) ==
    /\ state[so] = "sale"
    /\ state' = [state EXCEPT ![so] = "cancel"]
    /\ ret' = Quiet("cancel")
    /\ UNCHANGED <<calls, lines, partners, locations, partner_id, partner_shipping_id,
                   fsm_location_id, fsm_orders, messages>>

\* the base action_draft: a cancelled sale order becomes a quotation again
ActionDraft(so) ==
    /\ state[so] = "cancel"
    /\ state' = [state EXCEPT ![so] = "draft"]
    /\ ret' = Quiet("draft")
    /\ UNCHANGED <<calls, lines, partners, locations, partner_id, partner_shipping_id,
                   fsm_location_id, fsm_orders, messages>>

\* what a call that returns the mapping out.result leaves
MappingEffect(op, sos, out) ==
    /\ fsm_orders' = out.db.fsm
    /\ messages' = out.db.msgs
    /\ ret' = [Call(op, sos, out.db.fsm) EXCEPT !.result = out.result]
    /\ UNCHANGED <<calls, lines, partners, locations, state, partner_id,
                   partner_shipping_id, fsm_location_id>>

\* _field_find_fsm_order on a recordset of sale orders
FieldFindFsmOrder(sos) == MappingEffect("find", sos, field_find_fsm_order(Db, sos))

\* _field_create_fsm_order on a recordset of sale orders
FieldCreateFsmOrder(sos) ==
    /\ Len(fsm_orders) + Len(sos) <= MaxFsm
    /\ MappingEffect("create", sos, field_create_fsm_order(Db, sos))

\* _field_create_fsm_order_prepare_values on one sale order
PrepareValues(so) ==
    /\ ret' = [Call("prepare_values", <<so>>, fsm_orders) EXCEPT
                 !.values = <<field_create_fsm_order_prepare_values(so)>>]
    /\ UNCHANGED <<calls, lines, partners, locations, state, partner_id,
                   partner_shipping_id, fsm_location_id, fsm_orders, messages>>

\* the two searches of _compute_fsm_order_ids and their union
LinkedFsmOrders(so) ==
    Union(Union(<< >>,
                Search(fsm_orders,
                       LAMBDA rec : rec.sale_line_id \in Range(order_line(so)))),
          Search(fsm_orders, LAMBDA rec : rec.sale_id = so))

\* the computation that also generates the missing order-level fsm orders
ComputeEffectCreating(sos, orders) ==
    /\ ret' = [Call("compute", sos, fsm_orders) EXCEPT
                 !.fsm_order_ids = orders,
                 !.fsm_order_count = [o \in DOMAIN orders |-> Len(orders[o])]]
    /\ fsm_orders' = field_find_fsm_order(Db, sos).db.fsm
    /\ messages' = field_find_fsm_order(Db, sos).db.msgs
    /\ UNCHANGED <<calls, lines, partners, locations, state, partner_id,
                   partner_shipping_id, fsm_location_id>>

\* order.fsm_order_ids = orders; order.fsm_order_count = len(order.fsm_order_ids)
ComputeEffect(sos, orders) ==
    /\ ret' = [Call("compute", sos, fsm_orders) EXCEPT
                 !.fsm_order_ids = orders,
                 !.fsm_order_count = [o \in DOMAIN orders |-> Len(orders[o])]]
    /\ UNCHANGED <<calls, lines, partners, locations, state, partner_id,
                   partner_shipping_id, fsm_location_id, fsm_orders, messages>>

\* _compute_fsm_order_ids on a recordset of sale orders
ComputeFsmOrderIds(sos) ==
    ComputeEffect(sos, [o \in Range(sos) |-> LinkedFsmOrders(o)])

\* self.mapped("fsm_order_ids"): the fsm orders of every sale order, each once
MappedFsmOrders(sos) ==
    LET acc[i \in 0..Len(sos)] ==
            IF i = 0 THEN << >> ELSE Union(acc[i - 1], LinkedFsmOrders(sos[i]))
    IN  acc[Len(sos)]

\* env.ref("fieldservice.action_fsm_dash_order").read()[0]: the window action
\* of the fsm orders, with its own views and no record and no filter
DashOrderAction ==
    [type |-> "ir.actions.act_window", view |-> "dashboard", res_id |-> Unset,
     filtered |-> FALSE, domain_ids |-> << >>]

\* {"type": "ir.actions.act_window_close"}
CloseAction == [NoAction EXCEPT !.type = "ir.actions.act_window_close"]

\* the choice that lists from one fsm order on
ViewActionListFromOne(orders) ==
    IF Len(orders) >= 1
    THEN [DashOrderAction EXCEPT !.filtered = TRUE, !.domain_ids = orders]
    ELSE CloseAction

\* the action chosen by the number of fsm orders
ViewAction(orders) ==
    IF Len(orders) > 1
    THEN [DashOrderAction EXCEPT !.filtered = TRUE, !.domain_ids = orders]
    ELSE IF Len(orders) = 1
         THEN [DashOrderAction EXCEPT !.view = "form", !.res_id = orders[1]]
         ELSE CloseAction

\* action_view_fsm_order on a recordset of sale orders
ActionViewFsmOrder(sos) ==
    /\ ret' = [Call("view", sos, fsm_orders) EXCEPT
                 !.action = ViewAction(MappedFsmOrders(sos))]
    /\ UNCHANGED <<calls, lines, partners, locations, state, partner_id,
                   partner_shipping_id, fsm_location_id, fsm_orders, messages>>

\* the domain without the commercial partner
LocationDomainNoCommercial(p, s, loc) ==
    IF partners[p].fsm_location THEN loc.partner_id = p
    ELSE \/ loc.partner_id = p
         \/ loc.partner_id = s

\* the domain that is never narrowed to the customer
LocationDomainNeverNarrowed(p, s, loc) ==
    \/ loc.partner_id = p
    \/ loc.partner_id = s
    \/ loc.partner_id = partners[p].commercial_partner_id

\* the domain of onchange_partner_id for customer p with shipping address s
LocationDomain(p, s, loc) ==
    IF partners[p].fsm_location THEN loc.partner_id = p
    ELSE \/ loc.partner_id = p
         \/ loc.partner_id = s
         \/ loc.partner_id = partners[p].commercial_partner_id

\* self.fsm_location_id = location_ids and location_ids[0] or False
OnchangeEffect(so, p, s, location_ids) ==
    /\ partner_id' = [partner_id EXCEPT ![so] = p]
    /\ partner_shipping_id' = [partner_shipping_id EXCEPT ![so] = s]
    /\ fsm_location_id' = [fsm_location_id EXCEPT ![so] =
           IF location_ids # << >> THEN location_ids[1] ELSE Unset]
    /\ ret' = Quiet("onchange")
    /\ UNCHANGED <<calls, lines, partners, locations, state, fsm_orders, messages>>

\* the search of onchange_partner_id for customer p with shipping address s
OnchangeSearch(so, p, s) ==
    OnchangeEffect(so, p, s,
                   Search(locations, LAMBDA loc : LocationDomain(p, s, loc)))

\* onchange_partner_id after the customer of the sale order became p: the base
\* onchange sets the shipping address to the customer's delivery address
OnchangePartnerId(so, p) == OnchangeSearch(so, p, partners[p].delivery)

(* -------------------------- specifications ----------------------------- *)
\* the partners and locations of the generation specifications: partner 1
\* owns location 1, partner 2 owns none
BasicPartners ==
    << [commercial_partner_id |-> 1, fsm_location |-> FALSE, delivery |-> 1],
       [commercial_partner_id |-> 2, fsm_location |-> FALSE, delivery |-> 2] >>

BasicLocations == << [partner_id |-> 1, direction |-> "north"] >>

\* all line tables of at most n lines of the given sale orders and products
LineTables(n, sos, prods) ==
    UNION {[1..k -> [order_id : sos, product_id : prods]] : k \in 0..n}

\* quotations with service location loc, nothing generated yet
Start(tables, loc) ==
    /\ lines \in tables
    /\ partners = BasicPartners
    /\ locations = BasicLocations
    /\ state = [o \in SaleIds |-> "draft"]
    /\ partner_id = [o \in SaleIds |-> 2]
    /\ partner_shipping_id = [o \in SaleIds |-> 2]
    /\ fsm_location_id = [o \in SaleIds |-> loc]
    /\ fsm_orders = << >>
    /\ messages = << >>
    /\ calls = [p \in Flows |-> NoFlow]
    /\ ret = NoCall

\* the recordsets a batch call is made on
Batches == Recordsets(SaleIds) \ {<< >>}

\* the sale order the user works on: it carries the lines, and it is the one
\* that is confirmed, cancelled, reset and edited.  The other sale order is
\* in the store beside it and is reached by the calls on several orders.
Worked == {1}

Init == Start(LineTables(MaxLines, Worked, BasicProducts), Unset)

\* serialized calls; every order-level generation goes through find
Next ==
    \/ \E so \in Worked : ActionConfirm(so)
    \/ \E so \in Worked : ActionCancel(so)
    \/ \E so \in Worked : ActionDraft(so)
    \/ \E sos \in Batches : FieldFindFsmOrder(sos)
    \/ \E so \in Worked, p \in DOMAIN partners : OnchangePartnerId(so, p)

Spec == Init /\ [][Next]_vars

\* two request flows whose _field_find_fsm_order calls interleave
NextFlows ==
    \/ \E p \in Flows, sos \in Batches : FlowSearch(p, sos)
    \/ \E p \in Flows : FlowIterate(p)
    \/ \E p \in Flows : FlowReturn(p)

\* the calls read no line but through the values of a created fsm order:
\* a sale order without lines and one with a "sale" line
InitFlows == Start({<< >>, <<[order_id |-> 1, product_id |-> 2]>>}, Unset)

SpecFlows == InitFlows /\ [][NextFlows]_vars

\* every call of the model, serialized; direct creation stops at MaxFsm
NextAll ==
    \/ Next
    \/ \E sos \in Batches : FieldCreateFsmOrder(sos)
    \/ \E sos \in Batches : ComputeFsmOrderIds(sos)

\* a sale order without lines, or with a "sale" line and a "line" line
InitAll ==
    Start({<< >>, <<[order_id |-> 1, product_id |-> 2],
                    [order_id |-> 1, product_id |-> 3]>>}, Unset)

SpecAll == InitAll /\ [][NextAll]_vars

\* direct creation beside find-or-create, on sale orders with and without a
\* location
NextCreate ==
    \/ \E sos \in Batches : FieldCreateFsmOrder(sos)
    \/ \E sos \in Batches : FieldFindFsmOrder(sos)
    \/ \E so \in SaleIds, p \in DOMAIN partners : OnchangePartnerId(so, p)

SpecCreate == InitAll /\ [][NextCreate]_vars

\* value building on one sale order, over every table of at most
\* MaxValueLines lines of the catalogue's products
InitValues == Start(LineTables(MaxValueLines, Worked, ProductIds), 1)

NextValues == \E so \in SaleIds : PrepareValues(so)

SpecValues == InitValues /\ [][NextValues]_vars

\* the linkage query among the calls that produce fsm orders, on sale orders
\* that both carry "sale" and "line" lines and have a location
InitLink == Start(LineTables(MaxLines, SaleIds, {2, 3}), 1)

NextLink ==
    \/ \E so \in SaleIds : ActionConfirm(so)
    \/ \E sos \in Batches : FieldFindFsmOrder(sos)
    \/ \E sos \in Batches : ComputeFsmOrderIds(sos)

SpecLink == InitLink /\ [][NextLink]_vars

\* partner tables of the location inference: a company, a contact of that
\* company and an address that is a commercial entity of its own; any of
\* them may be flagged as an fsm location, and the delivery address of the
\* company and of the contact is the partner itself or the address
LocPartners ==
    {<< [commercial_partner_id |-> 1, fsm_location |-> f[1], delivery |-> d1],
        [commercial_partner_id |-> 1, fsm_location |-> f[2], delivery |-> d2],
        [commercial_partner_id |-> 3, fsm_location |-> f[3], delivery |-> 3] >> :
            f \in [1..3 -> BOOLEAN], d1 \in {1, 3}, d2 \in {2, 3}}

\* fsm.location tables of at most n locations, each owned by some partner
LocationTables(n) ==
    UNION {[1..k -> [partner_id : 1..3, direction : {"north"}]] : k \in 0..n}

\* quotations of the address, before the customer is changed
InitLoc ==
    /\ lines = << >>
    /\ partners \in LocPartners
    /\ locations \in LocationTables(MaxLocations)
    /\ state = [o \in SaleIds |-> "draft"]
    /\ partner_id = [o \in SaleIds |-> 3]
    /\ partner_shipping_id = [o \in SaleIds |-> 3]
    /\ fsm_location_id = [o \in SaleIds |-> Unset]
    /\ fsm_orders = << >>
    /\ messages = << >>
    /\ calls = [p \in Flows |-> NoFlow]
    /\ ret = NoCall

NextLoc == \E so \in Worked, p \in DOMAIN partners : OnchangePartnerId(so, p)

SpecLoc == InitLoc /\ [][NextLoc]_vars

\* the navigation action among the calls that produce fsm orders
NextView ==
    \/ \E so \in SaleIds : ActionConfirm(so)
    \/ \E sos \in Batches : FieldFindFsmOrder(sos)
    \/ \E sos \in Batches : ActionViewFsmOrder(sos)

SpecView == InitLink /\ [][NextView]_vars

(* ------------------------------ claims --------------------------------- *)
\* the order-level fsm orders of a sale order: no line reference
OrderLevel(so) ==
    {i \in 1..Len(fsm_orders) :
        fsm_orders[i].sale_id = so /\ fsm_orders[i].sale_line_id = Unset}

\* the tracking modes of the lines of a sale order, read off the tables
ModesOf(so) ==
    {product[lines[l].product_id].field_service_tracking :
        l \in {k \in 1..Len(lines) : lines[k].order_id = so}}

\* C1: under serialized confirm, cancel, reset, reconfirm and find-or-create
\* calls every sale order has at most one fsm order without line reference.
C1_AtMostOneOrderLevel == \A so \in SaleIds : Cardinality(OrderLevel(so)) <= 1

\* a reconfirmation of an order with a "sale" line that reused its fsm order
C1_Reconfirmed ==
    \E so \in SaleIds :
        /\ ret.op = "confirm" /\ ret.ids = <<so>>
        /\ "sale" \in ModesOf(so)
        /\ ret.gen_called /\ ret.created = 0
        /\ Cardinality(OrderLevel(so)) = 1

\* C2: a find-or-create call right after a find-or-create call returns, for
\* every sale order of both calls, the same fsm order, which is then the only
\* one without line reference of that order; the second call on the same
\* orders creates no record and posts no message.
C2_FindTwice ==
    [][(ret.op = "find" /\ ret'.op = "find") =>
        /\ \A so \in Range(ret.ids) \cap Range(ret'.ids) :
              /\ ret'.result[so] = ret.result[so]
              /\ OrderLevel(so)' = {ret.result[so]}
        /\ ret'.ids = ret.ids =>
              fsm_orders' = fsm_orders /\ messages' = messages]_vars

\* the second of two find-or-create calls on the same sale orders
C2_FoundAgain ==
    /\ ret.op = "find" /\ ret.repeat /\ ret.created = 0
    /\ \A so \in Range(ret.ids) : OrderLevel(so) = {ret.result[so]}

\* C3: confirming a sale order that has a line with tracking other than "no"
\* and no service location raises the validation error, does not call the
\* line generation, and leaves the fsm orders as they were.
C3_ConfirmWithoutLocation ==
    [][\A so \in SaleIds :
        (/\ ret'.op = "confirm" /\ ret'.ids = <<so>>
         /\ ModesOf(so) \ {"no"} # {}
         /\ fsm_location_id[so] = Unset)
        => /\ ret'.raised = "ValidationError"
           /\ ~ret'.gen_called
           /\ fsm_orders' = fsm_orders]_vars

\* a confirmation that raised while fsm orders existed
C3_Raised ==
    /\ ret.op = "confirm" /\ ret.raised = "ValidationError"
    /\ ModesOf(ret.ids[1]) \ {"no"} # {}
    /\ fsm_location_id[ret.ids[1]] = Unset
    /\ fsm_orders # << >>

\* C4: confirming a sale order whose lines all have tracking "no" (or that
\* has no lines) raises nothing, does not call the line generation and
\* creates no fsm order, with or without a service location.
C4_ConfirmNoServiceLine ==
    [][\A so \in SaleIds :
        (/\ ret'.op = "confirm" /\ ret'.ids = <<so>>
         /\ ModesOf(so) \subseteq {"no"})
        => /\ ret'.raised = "none"
           /\ ~ret'.gen_called
           /\ fsm_orders' = fsm_orders]_vars

\* a confirmation of an order of "no" lines only, without a location
C4_Quiet ==
    /\ ret.op = "confirm" /\ ret.raised = "none"
    /\ ModesOf(ret.ids[1]) = {"no"}
    /\ fsm_location_id[ret.ids[1]] = Unset
\* C5: when two find-or-create calls for the same sale order have both
\* searched before either created, each creates an fsm order: the sale order
\* ends with two fsm orders without line reference, one per call.
C5_RaceDuplicates ==
    \A so \in SaleIds :
        (\A p \in Flows : /\ calls[p].pc = "done"
                          /\ so \in Range(calls[p].sos)
                          /\ so \notin DOMAIN calls[p].mapping)
        => /\ Cardinality(OrderLevel(so)) >= 2
           /\ calls[1].result[so] # calls[2].result[so]
           /\ {calls[1].result[so], calls[2].result[so]} \subseteq OrderLevel(so)

\* both flows returned after finding nothing, and the duplicate is there
C5_Duplicate ==
    \E so \in SaleIds :
        /\ \A p \in Flows : /\ calls[p].pc = "done"
                            /\ so \in Range(calls[p].sos)
                            /\ so \notin DOMAIN calls[p].mapping
        /\ Cardinality(OrderLevel(so)) = 2
\* C6: an fsm order, once created, stays in the table with the same sale
\* order, whatever call follows: confirm, cancel, reset, reconfirm,
\* find-or-create, direct creation, linkage query, customer change.
C6_FsmOrdersStay ==
    [][\A i \in 1..Len(fsm_orders) :
          /\ i <= Len(fsm_orders')
          /\ fsm_orders'[i].sale_id = fsm_orders[i].sale_id]_vars

\* the sale order was cancelled after its fsm order was generated
C6_KeptAfterCancel ==
    /\ state[1] = "cancel"
    /\ \E i \in 1..Len(fsm_orders) : fsm_orders[i].sale_id = 1

\* the fsm orders the two lookups of the linkage query name, read off the tables
ByLine(so) ==
    {i \in 1..Len(fsm_orders) :
        \E l \in 1..Len(lines) :
            lines[l].order_id = so /\ fsm_orders[i].sale_line_id = l}

BySale(so) == {i \in 1..Len(fsm_orders) : fsm_orders[i].sale_id = so}

\* C7: the linkage query gives every sale order the union of the fsm orders
\* of its lines and the fsm orders of the order itself, each once, and the
\* count is the number of fsm orders in that union.
C7_LinkedUnion ==
    ret.op = "compute" =>
        \A so \in Range(ret.ids) :
            /\ Range(ret.fsm_order_ids[so]) = ByLine(so) \cup BySale(so)
            /\ Len(ret.fsm_order_ids[so]) = Cardinality(ByLine(so) \cup BySale(so))
            /\ ret.fsm_order_count[so] = Cardinality(ByLine(so) \cup BySale(so))

\* a sale order linked to a line-scoped fsm order, found by both lookups, and
\* to an order-level one
C7_BothKinds ==
    /\ ret.op = "compute"
    /\ \E so \in Range(ret.ids) :
          /\ ByLine(so) \cap BySale(so) # {}
          /\ OrderLevel(so) # {}
          /\ ret.fsm_order_count[so] = 2

\* C8: the linkage query changes no fsm order, no sale order line and no
\* message, and a second query right after the first gives the same fsm
\* orders and count.
C8_ComputePure ==
    [][ret'.op = "compute" =>
        /\ fsm_orders' = fsm_orders
        /\ messages' = messages
        /\ lines' = lines
        /\ ret.op = "compute" =>
              \A so \in Range(ret.ids) \cap Range(ret'.ids) :
                  /\ ret'.fsm_order_ids[so] = ret.fsm_order_ids[so]
                  /\ ret'.fsm_order_count[so] = ret.fsm_order_count[so]]_vars

\* the second of two linkage queries on the same sale orders, with fsm
\* orders in the table
C8_ComputedAgain ==
    /\ ret.op = "compute" /\ ret.repeat
    /\ \E so \in Range(ret.ids) : ret.fsm_order_count[so] > 0

\* the templates of the "sale" lines of a sale order, line by line
SaleTemplates(so) ==
    LET ls == SelectSeq(Ids(Len(lines)), LAMBDA l :
                /\ lines[l].order_id = so
                /\ product[lines[l].product_id].field_service_tracking = "sale"
                /\ product[lines[l].product_id].fsm_order_template_id # Unset)
    IN  [k \in 1..Len(ls) |-> product[lines[ls[k]].product_id].fsm_order_template_id]

\* the texts of a sequence of templates joined, none counting as empty
JoinedInstructions(ts) ==
    LET text[i \in 0..Len(ts)] ==
            IF i = 0 THEN << >>
            ELSE IF template[ts[i]].instructions = NoInstructions THEN text[i - 1]
            ELSE text[i - 1] \o template[ts[i]].instructions
    IN  text[Len(ts)]

\* the durations of a sequence of templates added up
SummedDuration(ts) ==
    LET sum[i \in 0..Len(ts)] ==
            IF i = 0 THEN 0 ELSE sum[i - 1] + template[ts[i]].duration
    IN  sum[Len(ts)]

\* C9: when the "sale" lines of a sale order carry pairwise distinct
\* templates, the value record has the templates' instructions joined in
\* line order as notes, the sum of their durations as scheduled duration and
\* the union of their categories; other lines contribute nothing.
C9_Aggregation ==
    (/\ ret.op = "prepare_values"
     /\ \A i, j \in 1..Len(SaleTemplates(ret.ids[1])) :
           SaleTemplates(ret.ids[1])[i] = SaleTemplates(ret.ids[1])[j] => i = j)
    => /\ ret.values[1].todo = JoinedInstructions(SaleTemplates(ret.ids[1]))
       /\ ret.values[1].scheduled_duration = SummedDuration(SaleTemplates(ret.ids[1]))
       /\ Range(ret.values[1].category_ids) =
             UNION {Range(template[t].category_ids) :
                        t \in Range(SaleTemplates(ret.ids[1]))}

\* the example of the specification: templates of 1.5 h "A" and 2.0 h "B"
\* give 3.5 h and "AB", beside a line that is not a "sale" line
C9_TwoTemplates ==
    /\ ret.op = "prepare_values"
    /\ SaleTemplates(ret.ids[1]) = <<1, 2>>
    /\ \E l \in 1..Len(lines) : lines[l].product_id = 3
    /\ ret.values[1].todo = <<"A", "B">>
    /\ ret.values[1].scheduled_duration = 7

\* C10: direct creation on a recordset of sale orders adds one fsm order per
\* sale order, with that sale order, no line and the order's location; posts
\* one message on the sale order and one on the fsm order, each naming the
\* other; and returns the mapping of every sale order to its new fsm order.
C10_CreateEach ==
    [][ret'.op = "create" =>
        /\ Len(fsm_orders') = Len(fsm_orders) + Len(ret'.ids)
        /\ \A i \in 1..Len(fsm_orders) : fsm_orders'[i] = fsm_orders[i]
        /\ Len(messages') = Len(messages) + 2 * Len(ret'.ids)
        /\ \A i \in 1..Len(messages) : messages'[i] = messages[i]
        /\ DOMAIN ret'.result = Range(ret'.ids)
        /\ \A k \in 1..Len(ret'.ids) :
              LET so == ret'.ids[k]
                  new == Len(fsm_orders) + k
                  posted == {i \in (Len(messages) + 1)..Len(messages') : TRUE}
              IN  /\ ret'.result[so] = new
                  /\ fsm_orders'[new].sale_id = so
                  /\ fsm_orders'[new].sale_line_id = Unset
                  /\ fsm_orders'[new].location_id = fsm_location_id[so]
                  /\ Cardinality({i \in posted :
                        messages'[i] = [model |-> "sale.order", res_id |-> so,
                                        ref_model |-> "fsm.order", ref_id |-> new]}) = 1
                  /\ Cardinality({i \in posted :
                        messages'[i] = [model |-> "fsm.order", res_id |-> new,
                                        ref_model |-> "sale.order", ref_id |-> so]}) = 1]_vars

\* a direct creation on both sale orders, one of them with a location
C10_CreatedTwo ==
    /\ ret.op = "create" /\ Len(ret.ids) = 2 /\ ret.created = 2
    /\ \E so \in Range(ret.ids) : fsm_orders[ret.result[so]].location_id # Unset
\* the locations owned by one of the partners `owners`
OwnedBy(owners) == {l \in 1..Len(locations) : locations[l].partner_id \in owners}

\* the first of the locations `found`, none when there is none
FirstOf(found, loc) ==
    IF found = {} THEN loc = Unset
    ELSE loc \in found /\ \A l \in found : loc <= l

\* C11: after the customer change of a sale order whose customer is not
\* flagged as an fsm location, the order's location is the first location
\* owned by the customer, the shipping address or the customer's commercial
\* partner, and is unset when there is none.
C11_FirstMatch ==
    ret.op = "onchange" =>
        \A so \in Worked :
            ~partners[partner_id[so]].fsm_location =>
                FirstOf(OwnedBy({partner_id[so], partner_shipping_id[so],
                                 partners[partner_id[so]].commercial_partner_id}),
                        fsm_location_id[so])

\* the only location belongs to the commercial partner of the customer, who
\* is not flagged and ships to another address: the order gets that location
C11_CommercialParent ==
    /\ ret.op = "onchange"
    /\ partner_id[1] = 2 /\ partner_shipping_id[1] = 3
    /\ ~partners[2].fsm_location
    /\ Len(locations) = 1 /\ locations[1].partner_id = 1
    /\ fsm_location_id[1] = 1

\* C12: after the customer change of a sale order whose customer is flagged
\* as an fsm location, the order's location is the first location owned by
\* that customer, and is unset when the customer owns none, whatever the
\* shipping address and the commercial partner own and whatever it was.
C12_Narrowed ==
    ret.op = "onchange" =>
        \A so \in Worked :
            partners[partner_id[so]].fsm_location =>
                FirstOf(OwnedBy({partner_id[so]}), fsm_location_id[so])

\* a flagged customer without a location of its own, whose commercial
\* partner and shipping address both own one: the order has no location
C12_Cleared ==
    /\ ret.op = "onchange"
    /\ partner_id[1] = 2 /\ partner_shipping_id[1] = 3
    /\ partners[2].fsm_location
    /\ OwnedBy({2}) = {} /\ OwnedBy({1}) # {} /\ OwnedBy({3}) # {}
    /\ fsm_location_id[1] = Unset
\* a sequence of templates with each template at its first place only
EachOnce(ts) ==
    LET once[i \in 0..Len(ts)] ==
            IF i = 0 THEN << >>
            ELSE IF \E j \in 1..(i - 1) : ts[j] = ts[i] THEN once[i - 1]
            ELSE Append(once[i - 1], ts[i])
    IN  once[Len(ts)]

\* C13 as stated: every "sale" line adds its product's template to the
\* aggregate, so a template shared by two "sale" lines is added twice to the
\* scheduled duration and appears twice in the notes.
C13_EveryLineContributes ==
    ret.op = "prepare_values" =>
        /\ ret.values[1].todo = JoinedInstructions(SaleTemplates(ret.ids[1]))
        /\ ret.values[1].scheduled_duration =
              SummedDuration(SaleTemplates(ret.ids[1]))

\* C13 amended: every template of the "sale" lines is added to the aggregate
\* once, at the place of the first line that carries it, so a template
\* shared by two "sale" lines is added once to the scheduled duration and
\* appears once in the notes.
C13_EveryTemplateOnce ==
    ret.op = "prepare_values" =>
        /\ ret.values[1].todo =
              JoinedInstructions(EachOnce(SaleTemplates(ret.ids[1])))
        /\ ret.values[1].scheduled_duration =
              SummedDuration(EachOnce(SaleTemplates(ret.ids[1])))

\* two "sale" lines of different products share the template of 1.5 h "A"
\* and a third carries the template of 2.0 h "B": 3.5 h and "AB"
C13_SharedTemplate ==
    /\ ret.op = "prepare_values"
    /\ \E l, k \in 1..Len(lines) :
          /\ lines[l].product_id = 2 /\ lines[k].product_id = 6
          /\ lines[l].order_id = ret.ids[1] /\ lines[k].order_id = ret.ids[1]
    /\ SaleTemplates(ret.ids[1]) \in {<<1, 1, 2>>, <<1, 2, 1>>}
    /\ ret.values[1].todo = <<"A", "B">>
    /\ ret.values[1].scheduled_duration = 7
\* C14: find-or-create on a recordset of sale orders returns, for each, an
\* order-level fsm order it had before the call when it had one and else a
\* new order-level fsm order of that sale order; it creates as many fsm
\* orders as there are sale orders in the recordset that had no order-level
\* fsm order, line-scoped fsm orders not counting.
C14_FindBatch ==
    [][ret'.op = "find" =>
        /\ Len(fsm_orders') - Len(fsm_orders) =
              Cardinality({so \in Range(ret'.ids) : OrderLevel(so) = {}})
        /\ \A so \in Range(ret'.ids) :
              IF OrderLevel(so) # {}
              THEN ret'.result[so] \in OrderLevel(so)
              ELSE /\ ret'.result[so] \in (Len(fsm_orders) + 1)..Len(fsm_orders')
                   /\ fsm_orders'[ret'.result[so]].sale_id = so
                   /\ fsm_orders'[ret'.result[so]].sale_line_id = Unset]_vars

\* a call on both sale orders that reused the fsm order of one and created
\* the order-level fsm order of the other, which had a line-scoped one only
C14_ReusedAndCreated ==
    /\ ret.op = "find" /\ Len(ret.ids) = 2 /\ ret.created = 1
    /\ \E so \in Range(ret.ids) :
          /\ ret.result[so] = Len(fsm_orders)
          /\ \E i \in 1..(Len(fsm_orders) - 1) :
                fsm_orders[i].sale_id = so /\ fsm_orders[i].sale_line_id # Unset
    /\ \E so \in Range(ret.ids) : ret.result[so] < Len(fsm_orders)
\* C15: direct creation checks nothing: a direct creation that follows
\* another gives every sale order of both calls a second order-level fsm
\* order, different from the first.
C15_CreateTwice ==
    [][(ret.op = "create" /\ ret'.op = "create") =>
        \A so \in Range(ret.ids) \cap Range(ret'.ids) :
            /\ ret'.result[so] # ret.result[so]
            /\ {ret.result[so], ret'.result[so]} \subseteq OrderLevel(so)']_vars

\* the same direct creation made twice: a sale order with two order-level
\* fsm orders, which find-or-create alone never leaves
C15_TwoForOne ==
    /\ ret.op = "create" /\ ret.repeat
    /\ \E so \in Range(ret.ids) :
          /\ Cardinality(OrderLevel(so)) = 2
          /\ ret.result[so] \in OrderLevel(so)
\* C16: a confirmation that raised the missing-location error had run the
\* base confirmation before, and a confirmation that returned gave back what
\* the base confirmation returned.
C16_BaseFirst ==
    ret.op = "confirm" =>
        /\ ret.raised = "ValidationError" => ret.base_called
        /\ ret.raised = "none" =>
              ret.base_called /\ ret.returned = BaseActionConfirmResult

\* a confirmation that raised, and returned nothing, after the base
\* confirmation had made the order a sale
C16_RaisedAfterBase ==
    /\ ret.op = "confirm" /\ ret.raised = "ValidationError"
    /\ ret.returned = "none" /\ ret.base_called
    /\ state[ret.ids[1]] = "sale"
\* the lines of a sale order, read off the line table
LinesOf(so) == {l \in 1..Len(lines) : lines[l].order_id = so}

\* C17 as stated: the lines a confirmation hands to the line generation are
\* exactly the lines of the order whose tracking mode is not "no".
C17_QualifyingLinesPassed ==
    (ret.op = "confirm" /\ ret.gen_called) =>
        Range(ret.gen_lines) =
            {l \in LinesOf(ret.ids[1]) :
                product[lines[l].product_id].field_service_tracking # "no"}

\* C17 amended: the lines a confirmation hands to the line generation are
\* all the lines of the order, the "no" lines among them.
C17_AllLinesPassed ==
    (ret.op = "confirm" /\ ret.gen_called) =>
        Range(ret.gen_lines) = LinesOf(ret.ids[1])

\* a confirmation that handed over a "no" line beside a line that is not
C17_NoLinePassed ==
    /\ ret.op = "confirm" /\ ret.gen_called
    /\ \E l, k \in Range(ret.gen_lines) :
          /\ product[lines[l].product_id].field_service_tracking = "no"
          /\ product[lines[k].product_id].field_service_tracking # "no"
\* the fsm orders linked to the sale orders of the last call
LinkedToCall == UNION {ByLine(so) \cup BySale(so) : so \in Range(ret.ids)}

\* C18: the navigation action is the close action exactly when no fsm order
\* is linked, the form view of the linked fsm order exactly when there is
\* one, and the list filtered to the linked fsm orders exactly when there
\* are two or more.
C18_ViewByCount ==
    ret.op = "view" =>
        /\ ret.action.type = "ir.actions.act_window_close" <=> LinkedToCall = {}
        /\ (/\ ret.action.type = "ir.actions.act_window"
            /\ ret.action.view = "form"
            /\ ~ret.action.filtered
            /\ {ret.action.res_id} = LinkedToCall)
              <=> Cardinality(LinkedToCall) = 1
        /\ (/\ ret.action.type = "ir.actions.act_window"
            /\ ret.action.filtered
            /\ ret.action.res_id = Unset
            /\ Range(ret.action.domain_ids) = LinkedToCall)
              <=> Cardinality(LinkedToCall) >= 2

\* the list of the two fsm orders of one sale order, a line-scoped one and
\* an order-level one
C18_ListOfTwo ==
    /\ ret.op = "view" /\ Len(ret.ids) = 1
    /\ ret.action.filtered /\ Len(ret.action.domain_ids) = 2
    /\ ByLine(ret.ids[1]) # {} /\ OrderLevel(ret.ids[1]) # {}
\* C19: find-or-create on a sale order that has two or more order-level fsm
\* orders creates no further order-level fsm order for it and returns one of
\* those it has.
C19_NoFurtherDuplicate ==
    [][ret'.op = "find" =>
        \A so \in Range(ret'.ids) :
            Cardinality(OrderLevel(so)) >= 2 =>
                /\ OrderLevel(so)' = OrderLevel(so)
                /\ ret'.result[so] \in OrderLevel(so)]_vars

\* find-or-create on a sale order with two order-level fsm orders: nothing
\* created, one of the two returned
C19_DuplicateReused ==
    /\ ret.op = "find" /\ Len(ret.ids) = 1 /\ ret.created = 0
    /\ Cardinality(OrderLevel(ret.ids[1])) = 2
    /\ ret.result[ret.ids[1]] \in OrderLevel(ret.ids[1])
\* C20: every fsm order a confirmation generates has a location, the one the
\* sale order has at the confirmation; an fsm order that find-or-create or
\* direct creation makes has the location of its sale order, set or not.
C20_GeneratedLocation ==
    [][\A i \in (Len(fsm_orders) + 1)..Len(fsm_orders') :
          /\ ret'.op = "confirm" =>
                /\ fsm_orders'[i].location_id # Unset
                /\ fsm_orders'[i].location_id = fsm_location_id[ret'.ids[1]]
          /\ ret'.op \in {"find", "create"} =>
                fsm_orders'[i].location_id =
                    fsm_location_id[fsm_orders'[i].sale_id]]_vars

\* a confirmation generated an order-level and a line-scoped fsm order, both
\* with the location of the sale order, beside an fsm order without location
\* that a direct call made for a sale order without location
C20_WithAndWithoutLocation ==
    /\ ret.op = "confirm" /\ ret.created = 2
    /\ \A i \in (Len(fsm_orders) - 1)..Len(fsm_orders) :
          fsm_orders[i].location_id = fsm_location_id[ret.ids[1]]
    /\ \E i \in 1..Len(fsm_orders) :
          /\ fsm_orders[i].location_id = Unset
          /\ fsm_location_id[fsm_orders[i].sale_id] = Unset

====
